---- MODULE Spec2Model ----
(***************************************************************************)
(* Batch calculator of SynthChar: the state held by BatchProvider          *)
(* (src/src/contexts/BatchContext.tsx), its handlers and effects, and the  *)
(* values it derives on every render.                                      *)
(*                                                                         *)
(* Numbers are JavaScript numbers.  A finite number is an exact rational   *)
(* n/d (d > 0, lowest terms); NaN, +Infinity and -Infinity are separate    *)
(* values, and so are the markers undefined and null.  Rounding of         *)
(* floating point is not modelled, and -0 is not told apart from 0.        *)
(***************************************************************************)
EXTENDS Integers, Sequences, FiniteSets, TLC

(***************************************************************************)
(* JavaScript numbers                                                      *)
(***************************************************************************)
Abs(x) == IF x < 0 THEN -x ELSE x

RECURSIVE GCD(_, _)
GCD(a, b) == IF b = 0 THEN a ELSE GCD(b, a % b)

\* n/d with d > 0, reduced by g
Reduced(n, d, g) == [k |-> "fin", n |-> n \div g, d |-> d \div g]

Fin(n, d) ==
  IF d < 0 THEN Reduced(-n, -d, GCD(Abs(n), Abs(d))) ELSE Reduced(n, d, GCD(Abs(n), Abs(d)))

Num(i)    == [k |-> "fin", n |-> i, d |-> 1]
NaN       == [k |-> "nan", n |-> 0, d |-> 1]
PInf      == [k |-> "inf", n |-> 1, d |-> 1]
NInf      == [k |-> "inf", n |-> -1, d |-> 1]
Undefined == [k |-> "undefined", n |-> 0, d |-> 1]
Null      == [k |-> "null", n |-> 0, d |-> 1]

IsFinite(x) == x.k = "fin"
IsNaN(x)    == x.k = "nan"
IsInf(x)    == x.k = "inf"
Sign(x)     == IF x.n > 0 THEN 1 ELSE IF x.n < 0 THEN -1 ELSE 0
InfOf(s)    == IF s > 0 THEN PInf ELSE NInf

\* ToNumber: undefined -> NaN, null -> 0, a number -> itself
ToNumber(x) == IF x.k = "undefined" THEN NaN ELSE IF x.k = "null" THEN Num(0) ELSE x

\* the product of two finite numbers, cross-reduced by g1 and g2
MulFin(a, b, g1, g2) ==
  Fin((a.n \div g1) * (b.n \div g2), (a.d \div g2) * (b.d \div g1))

\* a * b of two numbers
MulNum(a, b) ==
  IF IsNaN(a) \/ IsNaN(b) THEN NaN
  ELSE IF IsInf(a) \/ IsInf(b)
    THEN IF Sign(a) * Sign(b) = 0 THEN NaN ELSE InfOf(Sign(a) * Sign(b))
  ELSE MulFin(a, b, GCD(Abs(a.n), b.d), GCD(Abs(b.n), a.d))

\* a * b
Mul(a, b) == MulNum(ToNumber(a), ToNumber(b))

\* a / b of two numbers
DivNum(a, b) ==
  IF IsNaN(a) \/ IsNaN(b) THEN NaN
  ELSE IF IsInf(a) THEN (IF IsInf(b) THEN NaN
                         ELSE InfOf(Sign(a) * (IF Sign(b) < 0 THEN -1 ELSE 1)))
  ELSE IF IsInf(b) THEN Num(0)
  ELSE IF b.n = 0 THEN (IF a.n = 0 THEN NaN ELSE InfOf(Sign(a)))
  ELSE MulNum(a, Fin(b.d, b.n))

\* a / b
Div(a, b) == DivNum(ToNumber(a), ToNumber(b))

\* the sum of two finite numbers, g the divisor common to their denominators
AddFin(a, b, g) == Fin(a.n * (b.d \div g) + b.n * (a.d \div g), (a.d \div g) * b.d)

\* a + b of two numbers
AddNum(a, b) ==
  IF IsNaN(a) \/ IsNaN(b) THEN NaN
  ELSE IF IsInf(a) THEN (IF IsInf(b) /\ Sign(b) # Sign(a) THEN NaN ELSE a)
  ELSE IF IsInf(b) THEN b
  ELSE AddFin(a, b, GCD(a.d, b.d))

\* a + b
Add(a, b) == AddNum(ToNumber(a), ToNumber(b))

Sub(a, b) == Add(a, Mul(Num(-1), b))

\* a > b of two numbers (false whenever an operand is NaN)
GtNum(a, b) ==
  IF IsNaN(a) \/ IsNaN(b) THEN FALSE
  ELSE IF IsInf(a) THEN Sign(a) > 0 /\ a # b
  ELSE IF IsInf(b) THEN Sign(b) < 0
  ELSE a.n * b.d > b.n * a.d

\* a <= b of two numbers (false whenever an operand is NaN)
LeNum(a, b) == ~(IsNaN(a) \/ IsNaN(b)) /\ ~GtNum(a, b)

\* a > b and a <= b
Gt(a, b) == GtNum(ToNumber(a), ToNumber(b))
Le(a, b) == LeNum(ToNumber(a), ToNumber(b))

\* the truthiness of a number-or-marker: 0, NaN, undefined and null are falsy
Truthy(x) == (IsFinite(x) /\ x.n # 0) \/ IsInf(x)

\* x || y
Or(x, y) == IF Truthy(x) THEN x ELSE y

\* Math.abs
MathAbs(x) == IF IsFinite(x) THEN Fin(Abs(x.n), x.d) ELSE IF IsInf(x) THEN PInf ELSE NaN

RECURSIVE SumSeq(_)
SumSeq(s) == IF s = <<>> THEN Num(0) ELSE Add(SumSeq(SubSeq(s, 1, Len(s) - 1)), s[Len(s)])

(***************************************************************************)
(* Formula text.  A formula is a string, held as its sequence of           *)
(* characters so that it can be scanned and hashed.                        *)
(***************************************************************************)
UpperSeq == <<"A", "B", "C", "D", "E", "F", "G", "H", "I", "J", "K", "L", "M", "N", "O", "P", "Q", "R", "S", "T", "U", "V", "W", "X", "Y", "Z">>
LowerSeq == <<"a", "b", "c", "d", "e", "f", "g", "h", "i", "j", "k", "l", "m", "n", "o", "p", "q", "r", "s", "t", "u", "v", "w", "x", "y", "z">>
DigitSeq == <<"0", "1", "2", "3", "4", "5", "6", "7", "8", "9">>

SeqRange(s) == {s[i] : i \in DOMAIN s}
IndexIn(s, c) == CHOOSE i \in DOMAIN s : s[i] = c

IsUpper(c) == c \in SeqRange(UpperSeq)
IsLower(c) == c \in SeqRange(LowerSeq)
IsDigit(c) == c \in SeqRange(DigitSeq)
DigitVal(c) == IndexIn(DigitSeq, c) - 1

\* String.prototype.charCodeAt for the characters formulas are typed with
charCodeAt(c) ==
  IF IsUpper(c) THEN 64 + IndexIn(UpperSeq, c)
  ELSE IF IsLower(c) THEN 96 + IndexIn(LowerSeq, c)
  ELSE IF IsDigit(c) THEN 47 + IndexIn(DigitSeq, c)
  ELSE IF c = "(" THEN 40
  ELSE IF c = ")" THEN 41
  ELSE IF c = "." THEN 46
  ELSE IF c = "-" THEN 45
  ELSE 32

\* the formulas of the initial state and of the edits
EmptyFormula == <<>>
F_CaO   == <<"C", "a", "O">>
F_La2O3 == <<"L", "a", "2", "O", "3">>
F_H3BO3 == <<"H", "3", "B", "O", "3">>
F_B2O3  == <<"B", "2", "O", "3">>
F_Xx    == <<"X", "x">>

(***************************************************************************)
(* lib/chemistry: the formula parser and the calculators built on it.      *)
(***************************************************************************)
EmptyCounts == [x \in {} |-> Num(0)]
ParseError  == [ok |-> FALSE, counts |-> EmptyCounts]
ParseOk(m)  == [ok |-> TRUE, counts |-> m]

CountOf(m, sym) == IF sym \in DOMAIN m THEN m[sym] ELSE Num(0)

\* merging that overwrites the count of a symbol already present
MergeCounts_Overwrite(m1, m2, mult) ==
  [sym \in (DOMAIN m1) \cup (DOMAIN m2) |->
     IF sym \in DOMAIN m2 THEN Mul(m2[sym], mult) ELSE m1[sym]]

\* add (sum, never overwrite) every entry of m2, multiplied by mult, into m1
MergeCounts(m1, m2, mult) ==
  [sym \in (DOMAIN m1) \cup (DOMAIN m2) |->
     IF sym \in DOMAIN m2 THEN Add(CountOf(m1, sym), Mul(m2[sym], mult)) ELSE m1[sym]]

\* the first index >= i of s that holds no digit
RECURSIVE DigitsEnd(_, _)
DigitsEnd(s, i) == IF i <= Len(s) /\ IsDigit(s[i]) THEN DigitsEnd(s, i + 1) ELSE i

\* the first index >= i of s that holds no lowercase letter
RECURSIVE LowerEnd(_, _)
LowerEnd(s, i) == IF i <= Len(s) /\ IsLower(s[i]) THEN LowerEnd(s, i + 1) ELSE i

\* the integer written by the digits s[i..j-1]
RECURSIVE DigitsValue(_, _, _)
DigitsValue(s, i, j) ==
  IF j <= i THEN 0 ELSE 10 * DigitsValue(s, i, j - 1) + DigitVal(s[j - 1])

RECURSIVE Pow10(_)
Pow10(e) == IF e = 0 THEN 1 ELSE 10 * Pow10(e - 1)

\* the decimal literal with integer digits s[i..j-1], the point at j and
\* fraction digits s[j+1..e-1]
ReadDecimal(s, i, j, e) ==
  IF e = j + 1 THEN [ok |-> FALSE, val |-> Num(1), next |-> j]
  ELSE [ok |-> TRUE,
        val |-> Add(Num(DigitsValue(s, i, j)),
                    Fin(DigitsValue(s, j + 1, e), Pow10(e - j - 1))),
        next |-> e]

\* the numeric literal at s[i..] whose integer digits end before j
ReadDigits(s, i, j) ==
  IF j = i THEN [ok |-> TRUE, val |-> Num(1), next |-> i]
  ELSE IF j <= Len(s) /\ s[j] = "." THEN ReadDecimal(s, i, j, DigitsEnd(s, j + 1))
  ELSE [ok |-> TRUE, val |-> Num(DigitsValue(s, i, j)), next |-> j]

\* the numeric literal at s[i..]: integer or decimal, 1 when absent
ReadNumber(s, i) == ReadDigits(s, i, DigitsEnd(s, i))

\* the scan from position i with the stack of open scopes (root first)
RECURSIVE ParseFrom(_, _, _)

\* ")" followed by the multiplier num: the top scope, multiplied, is merged
\* into its parent
CloseGroup(s, stack, num) ==
  IF ~num.ok THEN ParseError
  ELSE ParseFrom(s, num.next,
                 Append(SubSeq(stack, 1, Len(stack) - 2),
                        MergeCounts(stack[Len(stack) - 1], stack[Len(stack)], num.val)))

\* the symbol sym followed by the count num is added to the top scope
AddElement(s, stack, sym, num) ==
  IF ~num.ok THEN ParseError
  ELSE ParseFrom(s, num.next,
                 [stack EXCEPT ![Len(stack)] =
                    MergeCounts(@, [x \in {sym} |-> Num(1)], num.val)])

\* the element symbol s[i..j-1] and the count after it
ReadElement(s, i, j, stack) == AddElement(s, stack, SubSeq(s, i, j - 1), ReadNumber(s, j))

ParseFrom(s, i, stack) ==
  IF i > Len(s)
    THEN IF Len(stack) = 1 THEN ParseOk(stack[1]) ELSE ParseError
  ELSE IF s[i] = "("
    THEN ParseFrom(s, i + 1, Append(stack, EmptyCounts))
  ELSE IF s[i] = ")"
    THEN IF Len(stack) < 2 THEN ParseError
         ELSE CloseGroup(s, stack, ReadNumber(s, i + 1))
  ELSE IF IsUpper(s[i])
    THEN ReadElement(s, i, LowerEnd(s, i + 1), stack)
  ELSE ParseError

\* a parser that closes the groups left open at the end of the text
parse_AutoClose(formula) ==
  IF ParseFrom(formula, 1, <<EmptyCounts>>).ok THEN ParseFrom(formula, 1, <<EmptyCounts>>)
  ELSE ParseFrom(formula \o <<")">>, 1, <<EmptyCounts>>)

parse(formula) == ParseFrom(formula, 1, <<EmptyCounts>>)

\* the atomic mass table: the rows setAtomics stores
AtomicRow(sym, mass) == [Symbol |-> sym, AtomicMass |-> Num(mass)]
PeriodicTable ==
  << AtomicRow(<<"H">>, 1), AtomicRow(<<"B">>, 11), AtomicRow(<<"O">>, 16),
     AtomicRow(<<"C", "a">>, 40), AtomicRow(<<"L", "a">>, 139) >>

HasSymbol(table, sym) == \E i \in DOMAIN table : table[i].Symbol = sym
MassOf(table, sym) == table[CHOOSE i \in DOMAIN table : table[i].Symbol = sym].AtomicMass

RECURSIVE WeighSymbols(_, _, _)

\* the weight of the symbols syms, sym taken first
WeighFirst(sym, syms, counts, table) ==
  Add(WeighSymbols(syms \ {sym}, counts, table), Mul(counts[sym], MassOf(table, sym)))

WeighSymbols(syms, counts, table) ==
  IF syms = {} THEN Num(0)
  ELSE WeighFirst(CHOOSE x \in syms : TRUE, syms, counts, table)

\* the weight of a parsed formula
WeighParsed(p, table) ==
  IF ~p.ok THEN Undefined
  ELSE IF \E sym \in DOMAIN p.counts : ~HasSymbol(table, sym) THEN Undefined
  ELSE WeighSymbols(DOMAIN p.counts, p.counts, table)

\* molecularWeight(formula, atomics): undefined when the formula does not parse
\* or names a symbol the table lacks
molecularWeight(formula, table) == WeighParsed(parse(formula), table)

\* the ratio (prodMoles * mwProd) / denominator
GFRatio(numerator, denominator) ==
  IF Le(denominator, Num(0)) THEN Null ELSE Div(numerator, denominator)

\* the gravimetric factor from the two molecular weights
GFOfWeights(mwPrec, mwProd, precMoles, prodMoles) ==
  IF mwPrec = Undefined \/ mwProd = Undefined \/ Le(precMoles, Num(0)) THEN Null
  ELSE GFRatio(Mul(prodMoles, mwProd), Mul(precMoles, mwPrec))

\* calculateGF(precursorFormula, productFormula, precursorMoles, productMoles, atomics):
\* null when a molecular weight is undefined or the denominator is not positive
calculateGF(precFormula, prodFormula, precMoles, prodMoles, table) ==
  GFOfWeights(molecularWeight(precFormula, table), molecularWeight(prodFormula, table),
              precMoles, prodMoles)

\* Number(text) of an input's text: "" is 0, a signed decimal its value,
\* anything else NaN
\* the literal r read from text[start..] when it has digits and ends the text
WholeLiteral(text, start, r) ==
  IF DigitsEnd(text, start) > start /\ r.ok /\ r.next = Len(text) + 1 THEN r.val ELSE NaN

Unsigned(text, start) == WholeLiteral(text, start, ReadNumber(text, start))

NumberOf(text) ==
  IF text = <<>> THEN Num(0)
  ELSE IF text[1] = "-" THEN Mul(Num(-1), Unsigned(text, 2))
  ELSE Unsigned(text, 1)

(***************************************************************************)
(* A JavaScript Map from formula to number: its entries in insertion       *)
(* order; set() on a present key replaces the value in place.              *)
(***************************************************************************)
MapHas(m, key) == \E i \in DOMAIN m : m[i].key = key
MapGet(m, key) ==
  IF MapHas(m, key) THEN m[CHOOSE i \in DOMAIN m : m[i].key = key].val ELSE Undefined
MapSet(m, key, v) ==
  IF MapHas(m, key)
    THEN [i \in DOMAIN m |-> IF m[i].key = key THEN [key |-> key, val |-> v] ELSE m[i]]
    ELSE Append(m, [key |-> key, val |-> v])

(***************************************************************************)
(* lib/chemistry: the batch weight normalizer                              *)
(***************************************************************************)
ZeroIfUndefined(v) == IF v = Undefined THEN Num(0) ELSE v

\* raw_i = matrixPercent_i * weight_i * moleRatio_i / 1000, the ratio 1 when
\* the map supplies none for the formula
RawQuantity(c, molesMap) ==
  Div(Mul(Mul(ZeroIfUndefined(c.matrix), ZeroIfUndefined(c.mw)),
          Or(MapGet(molesMap, c.formula), Num(1))),
      Num(1000))

calculateTotalBatchWeight(comps, molesMap) ==
  SumSeq([i \in DOMAIN comps |-> RawQuantity(comps[i], molesMap)])

\* normalized_i = desired * raw_i / total, every one 0 when total == 0
calculateAdjustedBatchWeights(comps, total, desired, molesMap) ==
  [i \in DOMAIN comps |->
     [formula |-> comps[i].formula,
      weight  |-> IF total = Num(0) THEN Num(0)
                  ELSE Div(Mul(desired, RawQuantity(comps[i], molesMap)), total)]]

(***************************************************************************)
(* The state of BatchProvider                                              *)
(***************************************************************************)
VARIABLES atomics, components, numComponents, desiredBatch, products, numProducts,
          precursorFormula, precursorMoles, productFormula, productMoles, gf,
          warning, edits,
          \* ElementAutoSuggest of the first precursor card: useState(-1), useState(false)
          highlight, focused

vars == <<atomics, components, numComponents, desiredBatch, products, numProducts,
          precursorFormula, precursorMoles, productFormula, productMoles, gf,
          warning, edits, highlight, focused>>

\* the number of handler calls explored from the initial state
MaxEdits == 2
\* the largest number of precursors asked for
MaxComponents == 3

Component(f, m, w) == [formula |-> f, matrix |-> m, mw |-> w]
Product(f, w, g, pf, pm, qm) ==
  [formula |-> f, mw |-> w, gf |-> g, precursorFormula |-> pf,
   precursorMoles |-> pm, productMoles |-> qm]

BlankComponent == Component(EmptyFormula, Num(0), Num(0))
BlankProduct   == Product(EmptyFormula, Num(0), Null, EmptyFormula, Num(1), Num(1))

InitialComponents ==
  << Component(F_CaO, Num(30), Num(0)),
     Component(F_La2O3, Num(10), Num(0)),
     Component(F_H3BO3, Num(60), Num(0)) >>

InitialProducts ==
  << Product(F_B2O3, Num(0), Null, F_H3BO3, Num(2), Num(1)),
     Product(F_La2O3, Num(0), Null, F_La2O3, Num(1), Num(1)) >>

WarningText == "Matrix values do not sum to 100%. Please adjust manually."

(***************************************************************************)
(* The effects                                                             *)
(***************************************************************************)
\* mw: atomics.length ? molecularWeight(formula, atomics) || 0 : 0
DefaultMW(formula, table) ==
  IF Len(table) > 0 THEN Or(molecularWeight(formula, table), Num(0)) ELSE Num(0)

\* the effect on [atomics]
RecalcComponents(prev, table) ==
  [i \in DOMAIN prev |-> [prev[i] EXCEPT !.mw = DefaultMW(prev[i].formula, table)]]
RecalcProducts(prev, table) ==
  [i \in DOMAIN prev |-> [prev[i] EXCEPT !.mw = DefaultMW(prev[i].formula, table)]]

\* a resize that starts every component afresh
ResizeComponents_Reset(prev, n) == [i \in 1..n |-> BlankComponent]

\* the effect on [numComponents]
ResizeComponents(prev, n) ==
  IF n > Len(prev)
    THEN prev \o [i \in 1..(n - Len(prev)) |-> BlankComponent]
    ELSE SubSeq(prev, 1, n)

\* a resize of the products that never removes one
ResizeProducts_GrowOnly(prev, n) ==
  IF n > Len(prev) THEN prev \o [i \in 1..(n - Len(prev)) |-> BlankProduct] ELSE prev

\* the effect on [numProducts, components]
ResizeProducts(prev, n) ==
  IF n > Len(prev) THEN prev \o [i \in 1..(n - Len(prev)) |-> BlankProduct]
  ELSE IF n < Len(prev) THEN SubSeq(prev, 1, n)
  ELSE prev

HasFormula(comps, f) == \E j \in DOMAIN comps : comps[j].formula = f

\* the products left as they are, no precursor reference refreshed
RefreshPrecursors_Off(prods, comps) == prods

RefreshPrecursors(prods, comps) ==
  [i \in DOMAIN prods |->
     IF i <= Len(comps) /\ comps[i].formula # EmptyFormula
        /\ (prods[i].precursorFormula = EmptyFormula
            \/ ~HasFormula(comps, prods[i].precursorFormula))
       THEN [prods[i] EXCEPT !.precursorFormula = comps[i].formula]
       ELSE prods[i]]

SyncProducts(prev, n, comps) == RefreshPrecursors(ResizeProducts(prev, n), comps)

\* the sum with no value replaced by 0
totalMatrixOf_NoCoercion(comps) ==
  SumSeq([i \in DOMAIN comps |-> ToNumber(comps[i].matrix)])

\* totalMatrix and the effect on it
totalMatrixOf(comps) ==
  SumSeq([i \in DOMAIN comps |-> Or(ToNumber(comps[i].matrix), Num(0))])

\* Math.abs(totalMatrix - 100) > 0.001 && totalMatrix > 0
OffTarget(totalMatrix) ==
  Gt(MathAbs(Sub(totalMatrix, Num(100))), Fin(1, 1000)) /\ Gt(totalMatrix, Num(0))

WarningFor(comps) == IF OffTarget(totalMatrixOf(comps)) THEN WarningText ELSE ""

\* the effect of the GF calculator
GFEffect(table, pf, pm, qf, qm, old) ==
  IF Len(table) = 0 THEN old ELSE calculateGF(pf, qf, pm, qm, table)

Init ==
  /\ highlight = -1
  /\ focused = FALSE
  /\ atomics = <<>>
  /\ components = RecalcComponents(InitialComponents, <<>>)
  /\ numComponents = 3
  /\ desiredBatch = Num(5)
  /\ numProducts = 3
  /\ products = SyncProducts(SyncProducts(RecalcProducts(InitialProducts, <<>>), 2,
                                          InitialComponents), 3, InitialComponents)
  /\ precursorFormula = F_H3BO3
  /\ precursorMoles = Num(2)
  /\ productFormula = F_B2O3
  /\ productMoles = Num(1)
  /\ gf = Null
  /\ warning = WarningFor(InitialComponents)
  /\ edits = 0

(***************************************************************************)
(* The values derived on every render                                      *)
(***************************************************************************)
\* precursorMolesMap: precursorFormula -> precursorMoles, a later product
\* replacing an earlier one with the same precursor
RECURSIVE precursorMolesMapOf(_)
precursorMolesMapOf(prods) ==
  IF prods = <<>> THEN <<>>
  ELSE LET p    == prods[Len(prods)]
           rest == precursorMolesMapOf(SubSeq(prods, 1, Len(prods) - 1))
       IN  IF p.precursorFormula # EmptyFormula
             THEN MapSet(rest, p.precursorFormula, p.precursorMoles)
             ELSE rest

precursorMolesMap == precursorMolesMapOf(products)

\* precursorMolesMap.get(c.formula) || 1
moleRatioOf(c, molesMap) == Or(MapGet(molesMap, c.formula), Num(1))

\* the quantity without the mole ratio
molQtyOf_NoRatio(c, molesMap) == Div(Mul(c.matrix, c.mw), Num(1000))

\* (c.matrix * c.mw * precursorMoles) / 1000
molQtyOf(c, molesMap) ==
  Div(Mul(Mul(c.matrix, c.mw), moleRatioOf(c, molesMap)), Num(1000))

compResultsOf(comps, molesMap) ==
  [i \in DOMAIN comps |->
     [formula |-> comps[i].formula, matrix |-> comps[i].matrix, mw |-> comps[i].mw,
      molQty |-> molQtyOf(comps[i], molesMap)]]

compResults == compResultsOf(components, precursorMolesMap)

totalWeight == calculateTotalBatchWeight(components, precursorMolesMap)

\* every entry reading the weight of the first item
weightsOf_First(batchWeights) == [i \in DOMAIN batchWeights |-> batchWeights[1].weight]

weightsOf(batchWeights) == [i \in DOMAIN batchWeights |-> batchWeights[i].weight]

rawTotal == SumSeq([i \in DOMAIN compResults |-> compResults[i].molQty])

\* the normalization written inline, with no branch for a total of 0
weightPercents_Unguarded ==
  [i \in DOMAIN compResults |-> Div(Mul(desiredBatch, compResults[i].molQty), rawTotal)]

weightPercents ==
  weightsOf(calculateAdjustedBatchWeights(components, totalWeight, desiredBatch,
                                          precursorMolesMap))

\* components.find(c => c.formula === f)
FindComponent(comps, f) ==
  IF HasFormula(comps, f)
    THEN LET S == {j \in DOMAIN comps : comps[j].formula = f}
         IN  comps[CHOOSE j \in S : \A k \in S : j <= k]
    ELSE Undefined

\* precursorComp ? precursorComp.matrix : 0
precursorMatrixOf(p, comps) ==
  IF FindComponent(comps, p.precursorFormula) = Undefined THEN Num(0)
  ELSE FindComponent(comps, p.precursorFormula).matrix

effectiveMW(p) ==
  IF p.gf # Null /\ Gt(p.productMoles, Num(0)) /\ Gt(p.precursorMoles, Num(0))
    THEN Mul(p.mw, p.gf)
    ELSE p.mw

productMolQtyOf(p, comps) ==
  Div(Mul(Mul(precursorMatrixOf(p, comps), effectiveMW(p)), p.productMoles), Num(1000))

productResultsOf(prods, comps) ==
  [i \in DOMAIN prods |->
     [formula |-> prods[i].formula, mw |-> prods[i].mw, gf |-> prods[i].gf,
      precursorFormula |-> prods[i].precursorFormula,
      precursorMoles |-> prods[i].precursorMoles,
      productMoles |-> prods[i].productMoles,
      molQty |-> productMolQtyOf(prods[i], comps)]]

productResults == productResultsOf(products, components)

productTotalWeight ==
  SumSeq([i \in DOMAIN productResults |-> productResults[i].molQty])

\* productMolesMap: formula -> productMoles
RECURSIVE productMolesMapOf(_)
productMolesMapOf(prods) ==
  IF prods = <<>> THEN <<>>
  ELSE LET p    == prods[Len(prods)]
           rest == productMolesMapOf(SubSeq(prods, 1, Len(prods) - 1))
       IN  IF p.formula # EmptyFormula THEN MapSet(rest, p.formula, p.productMoles)
           ELSE rest

productMolesMap == productMolesMapOf(products)

\* components.find(c => c.formula === p.precursorFormula)?.matrix || 0
productMatrixOf(p, comps) ==
  IF FindComponent(comps, p.precursorFormula) = Undefined THEN Num(0)
  ELSE Or(FindComponent(comps, p.precursorFormula).matrix, Num(0))

\* p.gf !== null ? p.mw * p.gf : p.mw
productComponentMW(p) == IF p.gf # Null THEN Mul(p.mw, p.gf) ELSE p.mw

productComponentsOf(results, comps) ==
  [i \in DOMAIN results |->
     [formula |-> results[i].formula,
      matrix  |-> productMatrixOf(results[i], comps),
      mw      |-> productComponentMW(results[i])]]

productComponents == productComponentsOf(productResults, components)

productWeightPercents ==
  weightsOf(calculateAdjustedBatchWeights(productComponents, productTotalWeight,
                                          desiredBatch, productMolesMap))

(***************************************************************************)
(* generateCompositionData.  The hash is a 32-bit integer, held here as    *)
(* its two 16-bit halves so that no intermediate value leaves the range    *)
(* the arithmetic of the checker has.                                      *)
(***************************************************************************)
Half == 65536

\* hash << 5
Shl5(w) ==
  LET lo5 == w.lo * 32
  IN  [hi |-> (w.hi * 32 + lo5 \div Half) % Half, lo |-> lo5 % Half]

\* a - b on 32 bits
SubWord(a, b) ==
  LET lo == a.lo - b.lo
  IN  [hi |-> (a.hi - b.hi - (IF lo < 0 THEN 1 ELSE 0)) % Half, lo |-> lo % Half]

\* a + code on 32 bits
AddCode(a, code) ==
  LET lo == a.lo + code
  IN  [hi |-> (a.hi + lo \div Half) % Half, lo |-> lo % Half]

\* hash & hash: the signed 32-bit value of the word
ToInt32(w) ==
  IF w.hi >= 32768 THEN (w.hi - Half) * Half + w.lo ELSE w.hi * Half + w.lo

\* the loop of hashCode: hash = ((hash << 5) - hash) + str.charCodeAt(i)
RECURSIVE HashWord(_)
HashWord(str) ==
  IF str = <<>> THEN [hi |-> 0, lo |-> 0]
  ELSE LET h == HashWord(SubSeq(str, 1, Len(str) - 1))
       IN  AddCode(SubWord(Shl5(h), h), charCodeAt(str[Len(str)]))

hashCode(str) == ToInt32(HashWord(str))

\* a % m of JavaScript: the remainder has the sign of a
JsRem(a, m) ==
  LET r == a % m
  IN  IF a < 0 /\ r # 0 THEN r - m ELSE r

\* the remainder used as the hue without Math.abs
hueOf_NoAbs(compound) == JsRem(hashCode(compound), 360)

\* Math.abs(hashCode(compound) % 360)
hueOf(compound) == Abs(JsRem(hashCode(compound), 360))

\* hsl(hue, 70%, 60%)
colorOf(compound) == [hue |-> hueOf(compound), saturation |-> 70, lightness |-> 60]

\* compoundMap: formula -> matrix over the components with a formula and a matrix
RECURSIVE compoundMapOf(_)
compoundMapOf(comps) ==
  IF comps = <<>> THEN <<>>
  ELSE LET c    == comps[Len(comps)]
           rest == compoundMapOf(SubSeq(comps, 1, Len(comps) - 1))
       IN  IF c.formula = EmptyFormula \/ ~Truthy(c.matrix) THEN rest
           ELSE MapSet(rest, c.formula, c.matrix)

compositionOf(compoundMap) ==
  LET total == SumSeq([i \in DOMAIN compoundMap |-> compoundMap[i].val])
  IN  [i \in DOMAIN compoundMap |->
         [element    |-> compoundMap[i].key,
          percentage |-> Mul(Div(compoundMap[i].val, total), Num(100)),
          color      |-> colorOf(compoundMap[i].key)]]

elementComposition == compositionOf(compoundMapOf(components))

(***************************************************************************)
(* The values entered: formulas as typed or picked, numbers as the text of *)
(* a numeric input.                                                        *)
(***************************************************************************)
F_CaOH_open == <<"C", "a", "(", "O", "H">>
\* a formula of symbols the table lacks, whose hashCode is -2^31
F_MinHash == <<"P", "8", "B", "w", "3", "E", "c", "4">>

ComponentFormulaInputs == {EmptyFormula, F_MinHash, F_La2O3}
ProductFormulaInputs   == {EmptyFormula, F_CaOH_open}
MatrixTexts == {<<>>, <<"-", "1", "0">>, <<"a", "b", "c">>}
PrecursorMolesTexts == {<<"0">>, <<"-", "1">>, <<"3">>}
ProductMolesTexts   == {<<"0">>, <<"-", "1">>}
BatchInputs == {Num(0), Num(10)}
CalculatorPrecursorInputs == {F_Xx}
CalculatorProductInputs   == {F_CaO}
CalculatorPrecursorMoles  == {Num(0), Num(-1)}
CalculatorProductMoles    == {Num(0)}

\* the options of a product card's precursor dropdown
availablePrecursors(comps) ==
  {comps[j].formula : j \in {k \in DOMAIN comps : comps[k].formula # EmptyFormula}}

(***************************************************************************)
(* The handlers, each with the effects its state changes set off           *)
(***************************************************************************)
\* the fetch of the atomic mass table resolves with the rows of table
LoadTable(table) ==
  /\ atomics = <<>>
  /\ atomics' = table
  /\ components' = RecalcComponents(components, table)
  /\ products' = SyncProducts(RecalcProducts(products, table), numProducts,
                              components')
  /\ gf' = GFEffect(table, precursorFormula, precursorMoles,
                    productFormula, productMoles, gf)
  /\ warning' = WarningFor(components')
  /\ UNCHANGED <<highlight, focused, numComponents, desiredBatch, numProducts,
                 precursorFormula, precursorMoles, productFormula,
                 productMoles, edits>>

LoadAtomics == LoadTable(PeriodicTable)

ComponentFormulaEdit(comps, i, value, table) ==
  [comps EXCEPT ![i] = [@ EXCEPT !.formula = value,
                                 !.mw = Or(molecularWeight(value, table), Num(0))]]

LinkPrecursor(prods, i, value) ==
  IF i <= Len(prods) THEN [prods EXCEPT ![i].precursorFormula = value] ELSE prods

\* handleComponentChange(i, "formula")(value)
ComponentFormulaChange(i, value) ==
  /\ edits < MaxEdits
  /\ i \in DOMAIN components
  /\ components' = ComponentFormulaEdit(components, i, value, atomics)
  /\ products' = SyncProducts(LinkPrecursor(products, i, value), numProducts, components')
  /\ warning' = WarningFor(components')
  /\ edits' = edits + 1
  /\ UNCHANGED <<atomics, numComponents, desiredBatch, numProducts, precursorFormula,
                 precursorMoles, productFormula, productMoles, gf>>

\* the same with the dropdown of the input left as it is
HandleComponentFormula(i, value) ==
  ComponentFormulaChange(i, value) /\ UNCHANGED <<highlight, focused>>

ComponentMatrixEdit(comps, i, value) == [comps EXCEPT ![i].matrix = value]

\* handleComponentChange(i, "matrix")({target: {value: text}})
HandleComponentMatrix(i, text) ==
  /\ edits < MaxEdits
  /\ i \in DOMAIN components
  /\ components' = ComponentMatrixEdit(components, i, NumberOf(text))
  /\ products' = SyncProducts(products, numProducts, components')
  /\ warning' = WarningFor(components')
  /\ edits' = edits + 1
  /\ UNCHANGED <<highlight, focused, atomics, numComponents, desiredBatch,
                 numProducts, precursorFormula, precursorMoles,
                 productFormula, productMoles, gf>>

\* the edit stored without recalculating the GF
WithGF_Stale(p, table) == p

\* the GF of a product is recalculated only when it has both formulas
WithGF(p, table) ==
  IF p.precursorFormula # EmptyFormula /\ p.formula # EmptyFormula
    THEN [p EXCEPT !.gf = calculateGF(p.precursorFormula, p.formula, p.precursorMoles,
                                      p.productMoles, table)]
    ELSE p

ProductEdit(p, field, value, table) ==
  WithGF(IF field = "formula"
           THEN [p EXCEPT !.formula = value,
                          !.mw = Or(molecularWeight(value, table), Num(0))]
         ELSE IF field = "precursorFormula" THEN [p EXCEPT !.precursorFormula = value]
         ELSE IF field = "precursorMoles" THEN [p EXCEPT !.precursorMoles = value]
         ELSE [p EXCEPT !.productMoles = value],
         table)

\* handleProductChange(i, field)(val)
HandleProductChange(i, field, value) ==
  /\ edits < MaxEdits
  /\ i \in DOMAIN products
  /\ edits' = edits + 1
  /\ UNCHANGED <<highlight, focused, atomics, components, numComponents,
                 desiredBatch, numProducts, precursorFormula, precursorMoles,
                 productFormula, productMoles, gf, warning>>
  /\ products' = [products EXCEPT ![i] = ProductEdit(@, field, value, atomics)]

HandleProductFormula(i, value) == HandleProductChange(i, "formula", value)
HandleProductPrecursor(i, value) == HandleProductChange(i, "precursorFormula", value)
HandleProductPrecursorMoles(i, text) ==
  HandleProductChange(i, "precursorMoles", NumberOf(text))
HandleProductProductMoles(i, text) ==
  HandleProductChange(i, "productMoles", NumberOf(text))

\* setNumComponents(n)
SetNumComponents(n) ==
  /\ edits < MaxEdits
  /\ numComponents' = n
  /\ components' = ResizeComponents(components, n)
  /\ numProducts' = n
  /\ products' = SyncProducts(products, n, components')
  /\ warning' = WarningFor(components')
  /\ edits' = edits + 1
  /\ UNCHANGED <<highlight, focused, atomics, desiredBatch, precursorFormula,
                 precursorMoles, productFormula, productMoles, gf>>

\* setDesiredBatch(weight)
SetDesiredBatch(weight) ==
  /\ edits < MaxEdits
  /\ desiredBatch' = weight
  /\ edits' = edits + 1
  /\ UNCHANGED <<highlight, focused, atomics, components, numComponents,
                 products, numProducts, precursorFormula, precursorMoles,
                 productFormula, productMoles, gf, warning>>

\* the setters of the GF calculator
SetCalculator(pf, pm, qf, qm) ==
  /\ edits < MaxEdits
  /\ precursorFormula' = pf
  /\ precursorMoles' = pm
  /\ productFormula' = qf
  /\ productMoles' = qm
  /\ gf' = GFEffect(atomics, pf, pm, qf, qm, gf)
  /\ edits' = edits + 1
  /\ UNCHANGED <<highlight, focused, atomics, components, numComponents,
                 desiredBatch, products, numProducts, warning>>

SetPrecursorFormula(f) == SetCalculator(f, precursorMoles, productFormula, productMoles)
SetPrecursorMoles(m)   == SetCalculator(precursorFormula, m, productFormula, productMoles)
SetProductFormula(f)   == SetCalculator(precursorFormula, precursorMoles, f, productMoles)
SetProductMoles(m)     == SetCalculator(precursorFormula, precursorMoles, productFormula, m)

Next ==
  \/ LoadAtomics
  \/ \E i \in 1..MaxComponents, f \in ComponentFormulaInputs : HandleComponentFormula(i, f)
  \/ \E i \in 1..MaxComponents, t \in MatrixTexts : HandleComponentMatrix(i, t)
  \/ \E i \in 1..MaxComponents, f \in ProductFormulaInputs : HandleProductFormula(i, f)
  \/ \E i \in 1..MaxComponents, f \in availablePrecursors(components) :
       HandleProductPrecursor(i, f)
  \/ \E i \in 1..MaxComponents, t \in PrecursorMolesTexts :
       HandleProductPrecursorMoles(i, t)
  \/ \E i \in 1..MaxComponents, t \in ProductMolesTexts : HandleProductProductMoles(i, t)
  \/ \E n \in 0..MaxComponents : SetNumComponents(n)
  \/ \E w \in BatchInputs : SetDesiredBatch(w)
  \/ \E f \in CalculatorPrecursorInputs : SetPrecursorFormula(f)
  \/ \E m \in CalculatorPrecursorMoles : SetPrecursorMoles(m)
  \/ \E f \in CalculatorProductInputs : SetProductFormula(f)
  \/ \E m \in CalculatorProductMoles : SetProductMoles(m)

Spec == Init /\ [][Next]_vars

(***************************************************************************)
(* Properties                                                              *)
(***************************************************************************)
Loaded == atomics # <<>>

\* the products whose precursorFormula is the formula f
ProductsOfPrecursor(f) == {j \in DOMAIN products : products[j].precursorFormula = f}

\* the mole ratio selected for the formula f: the precursorMoles of the last
\* product naming f as its precursor, 1 when there is none or the value is falsy
SelectedRatio(f) ==
  LET S == {j \in ProductsOfPrecursor(f) : f # EmptyFormula}
  IN  IF S = {} THEN Num(1)
      ELSE LET last == CHOOSE j \in S : \A k \in S : k <= j
           IN  IF Truthy(products[last].precursorMoles)
                 THEN products[last].precursorMoles ELSE Num(1)

\* C1: for every component i, compResults[i].molQty is
\* matrix_i * mw_i * moleRatio_i / 1000, moleRatio_i being the mole ratio
\* selected for the component's formula.
C1_RawQuantity ==
  LET results == compResults
  IN  /\ DOMAIN results = DOMAIN components
      /\ \A i \in DOMAIN components :
           results[i].molQty =
             Div(Mul(components[i].matrix,
                     Mul(components[i].mw, SelectedRatio(components[i].formula))),
                 Num(1000))

C1_Witness ==
  /\ Loaded
  /\ \E i \in DOMAIN components :
       /\ SelectedRatio(components[i].formula) = Num(3)
       /\ Gt(compResults[i].molQty, Num(0))

C3_ZeroTotal ==
  LET weights == weightPercents
  IN  rawTotal = Num(0) =>
        /\ DOMAIN weights = DOMAIN components
        /\ \A i \in DOMAIN weights : weights[i] = Num(0)

\* the state before the table has loaded: every mw is 0, the matrices are not
C3_Witness ==
  /\ ~Loaded
  /\ Len(components) = 3
  /\ \A i \in DOMAIN components : Gt(components[i].matrix, Num(0))
  /\ rawTotal = Num(0)
  /\ \A i \in DOMAIN weightPercents : weightPercents[i] = Num(0)

\* C4: with the table loaded, a component or product whose formula fails to
\* parse or names a symbol the table lacks has an undefined molecular weight,
\* never 0, and the raw quantity and normalized mass derived from it are
\* undefined too.
C4_UndefinedPropagates ==
  Loaded =>
    /\ \A i \in DOMAIN components :
         molecularWeight(components[i].formula, atomics) = Undefined =>
           /\ components[i].mw = Undefined
           /\ compResults[i].molQty = Undefined
           /\ weightPercents[i] = Undefined
    /\ \A i \in DOMAIN products :
         molecularWeight(products[i].formula, atomics) = Undefined =>
           /\ products[i].mw = Undefined
           /\ productResults[i].molQty = Undefined

\* a finite number, or one of the markers undefined and null
FiniteOrMarker(v) == v.k \in {"fin", "undefined", "null"}

\* C5: every derived number exposed to the presentation layer is a finite
\* number or an explicit undefined/null marker, never NaN or infinite.
C5_NoNaNNoInfinity ==
  LET results  == compResults
      presults == productResults
      weights  == weightPercents
      pweights == productWeightPercents
      entries  == elementComposition
  IN  /\ \A i \in DOMAIN components : FiniteOrMarker(components[i].mw)
      /\ \A i \in DOMAIN products :
           FiniteOrMarker(products[i].mw) /\ FiniteOrMarker(products[i].gf)
      /\ FiniteOrMarker(gf)
      /\ \A i \in DOMAIN results : FiniteOrMarker(results[i].molQty)
      /\ FiniteOrMarker(totalWeight)
      /\ \A i \in DOMAIN weights : FiniteOrMarker(weights[i])
      /\ \A i \in DOMAIN presults : FiniteOrMarker(presults[i].molQty)
      /\ FiniteOrMarker(productTotalWeight)
      /\ \A i \in DOMAIN pweights : FiniteOrMarker(pweights[i])
      /\ \A i \in DOMAIN entries : FiniteOrMarker(entries[i].percentage)

\* C6: the mole ratio used for a component with a formula is 1 when no product
\* has a precursorFormula equal to the component's formula, and otherwise the
\* precursorMoles of a product whose precursorFormula equals it.
C6_MoleRatio ==
  LET molesMap == precursorMolesMap
  IN  \A i \in DOMAIN components :
        LET S == ProductsOfPrecursor(components[i].formula)
            r == moleRatioOf(components[i], molesMap)
        IN  components[i].formula # EmptyFormula =>
              IF S = {} THEN r = Num(1)
              ELSE \E j \in S : r = products[j].precursorMoles

\* the rule of the gravimetric factor g computed from two formulas and moles
GFRule(g, pf, qf, pm, qm, table) ==
  LET mwPrec == molecularWeight(pf, table)
      mwProd == molecularWeight(qf, table)
  IN  /\ (mwPrec = Undefined \/ mwProd = Undefined \/ Le(pm, Num(0))) => g = Null
      /\ (mwPrec # Undefined /\ mwProd # Undefined /\ Gt(pm, Num(0)) /\ qm = Num(0))
           => g = Num(0)

\* a step of handleProductChange on product i
ProductEditOf(i) ==
  \/ \E f \in ProductFormulaInputs :
       products'[i].formula = f /\ HandleProductFormula(i, f)
  \/ \E f \in availablePrecursors(components) :
       products'[i].precursorFormula = f /\ HandleProductPrecursor(i, f)
  \/ \E t \in PrecursorMolesTexts :
       products'[i].precursorMoles = NumberOf(t) /\ HandleProductPrecursorMoles(i, t)
  \/ \E t \in ProductMolesTexts :
       products'[i].productMoles = NumberOf(t) /\ HandleProductProductMoles(i, t)

\* a step of handleProductChange that recalculates the GF of a product stores
\* a GF that obeys the rule
C7_ProductEditStep ==
  \A i \in DOMAIN products :
    (/\ DOMAIN products' = DOMAIN products
     /\ \A j \in DOMAIN products \ {i} : products'[j] = products[j]
     /\ ProductEditOf(i)
     /\ products'[i].formula # EmptyFormula
     /\ products'[i].precursorFormula # EmptyFormula) =>
      GFRule(products'[i].gf, products'[i].precursorFormula, products'[i].formula,
             products'[i].precursorMoles, products'[i].productMoles, atomics)

\* C7: the gravimetric factor computed by a product edit and by the GF
\* calculator is null whenever a molecular weight is undefined or
\* precursorMoles <= 0, and 0 when productMoles = 0 with precursorMoles > 0 and
\* both molecular weights defined.
C7_GravimetricFactor ==
  /\ [](GFRule(gf, precursorFormula, productFormula, precursorMoles, productMoles,
               atomics))
  /\ [][C7_ProductEditStep]_vars

C7_Witness ==
  /\ Loaded
  /\ \E i \in DOMAIN products :
       /\ products[i].productMoles = Num(0)
       /\ Gt(products[i].precursorMoles, Num(0))
       /\ products[i].gf = Num(0)
  /\ Le(precursorMoles, Num(0))
  /\ gf = Null

\* C8: in the product-basis view the weight used for a product, in its raw
\* quantity productResults[i].molQty and in its normalized mass, is mw * gf
\* whenever gf is not null and the unadjusted mw otherwise.
C8_ProductBasisWeight ==
  LET presults == productResults
      pcomps   == productComponents
  IN  \A i \in DOMAIN products :
        LET q == products[i]
            w == IF q.gf # Null THEN Mul(q.mw, q.gf) ELSE q.mw
        IN  /\ presults[i].molQty =
                 Div(Mul(Mul(precursorMatrixOf(q, components), w), q.productMoles),
                     Num(1000))
            /\ pcomps[i].mw = w

\* the components that are not skipped: a formula, and a matrix that is
\* neither 0 nor undefined
RECURSIVE KeptComponents(_)
KeptComponents(comps) ==
  IF comps = <<>> THEN <<>>
  ELSE LET c    == comps[Len(comps)]
           rest == KeptComponents(SubSeq(comps, 1, Len(comps) - 1))
       IN  IF c.formula # EmptyFormula /\ Truthy(c.matrix) THEN Append(rest, c) ELSE rest

\* C9: elementComposition has one entry for each component with a non-empty
\* formula and a non-zero matrix, none for any other, each entry's percentage
\* being matrix_i / S * 100 with S the sum of the matrices of the components
\* kept; also when two components carry the same formula.
C9_CompositionEntries ==
  LET kept    == KeptComponents(components)
      S       == SumSeq([i \in DOMAIN kept |-> kept[i].matrix])
      entries == elementComposition
  IN  /\ DOMAIN entries = DOMAIN kept
      /\ \A i \in DOMAIN kept :
           /\ entries[i].element = kept[i].formula
           /\ entries[i].percentage = Mul(Div(kept[i].matrix, S), Num(100))

\* the hash of the claim: the signed 32-bit wrap-around of h := 31*h + charCode
Times31(w) ==
  LET lo31 == w.lo * 31
  IN  [hi |-> (w.hi * 31 + lo31 \div Half) % Half, lo |-> lo31 % Half]

RECURSIVE WrapHash(_)
WrapHash(str) ==
  IF str = <<>> THEN [hi |-> 0, lo |-> 0]
  ELSE AddCode(Times31(WrapHash(SubSeq(str, 1, Len(str) - 1))),
               charCodeAt(str[Len(str)]))

\* abs(hash) mod 360, abs taken in the integers
AbsMod360(h) == IF h >= 0 THEN h % 360 ELSE (360 - (h % 360)) % 360

\* C10: the color of a composition entry is hsl(H, 70%, 60%) with
\* H = abs(hash) mod 360 of the entry's formula alone, an integer in 0..359,
\* also for a formula whose hash is the minimum 32-bit value.
C10_Hue ==
  LET entries == elementComposition
  IN  \A i \in DOMAIN entries :
        LET H == AbsMod360(ToInt32(WrapHash(entries[i].element)))
        IN  /\ entries[i].color = [hue |-> H, saturation |-> 70, lightness |-> 60]
            /\ entries[i].color.hue \in 0..359

C10_Witness ==
  \E i \in DOMAIN elementComposition :
    /\ elementComposition[i].element = F_MinHash
    /\ hashCode(F_MinHash) = -2147483647 - 1
    /\ elementComposition[i].color.hue = 128
    /\ \E k \in DOMAIN elementComposition :
         elementComposition[k].element = F_H3BO3 /\ elementComposition[k].color.hue = 259

(***************************************************************************)
(* The inputs of a state and their replay.  The inputs are the atomic      *)
(* table, each component's formula and matrix, each product's formula,     *)
(* precursorFormula and mole counts, and the desired batch weight.  The    *)
(* replay enters the same inputs in one fixed order from the mounted       *)
(* provider: the table load, setNumComponents, then for every index the    *)
(* two component edits, then for every index the four product edits.       *)
(***************************************************************************)
ComponentInputs(comps) ==
  [i \in DOMAIN comps |-> [formula |-> comps[i].formula, matrix |-> comps[i].matrix]]

ProductInputs(prods) ==
  [i \in DOMAIN prods |->
     [formula |-> prods[i].formula, precursorFormula |-> prods[i].precursorFormula,
      precursorMoles |-> prods[i].precursorMoles, productMoles |-> prods[i].productMoles]]

\* the mounted provider, and the table load when table is not empty
ReplayMount(table) ==
  LET comps == RecalcComponents(InitialComponents, table)
      prods == SyncProducts(SyncProducts(RecalcProducts(InitialProducts, table), 2,
                                         InitialComponents), 3, InitialComponents)
  IN  [components |-> comps, products |-> SyncProducts(prods, 3, comps)]

\* setNumComponents(n)
ReplayResize(st, n) ==
  LET comps == ResizeComponents(st.components, n)
  IN  [components |-> comps, products |-> SyncProducts(st.products, n, comps)]

\* handleComponentChange(i, "formula")(f), then handleComponentChange(i, "matrix")(m)
ReplayComponent(st, i, f, m, table) ==
  LET comps1 == ComponentFormulaEdit(st.components, i, f, table)
      prods1 == SyncProducts(LinkPrecursor(st.products, i, f), Len(st.products), comps1)
      comps2 == ComponentMatrixEdit(comps1, i, m)
  IN  [components |-> comps2, products |-> SyncProducts(prods1, Len(prods1), comps2)]

\* the component edits of the indexes 1..k, in index order
RECURSIVE ReplayComponents(_, _, _, _)
ReplayComponents(st, k, target, table) ==
  IF k = 0 THEN st
  ELSE ReplayComponent(ReplayComponents(st, k - 1, target, table), k,
                       target[k].formula, target[k].matrix, table)

\* the four calls of handleProductChange on product i
ReplayProduct(p, target, table) ==
  ProductEdit(
    ProductEdit(
      ProductEdit(
        ProductEdit(p, "formula", target.formula, table),
        "precursorFormula", target.precursorFormula, table),
      "precursorMoles", target.precursorMoles, table),
    "productMoles", target.productMoles, table)

ReplayProducts(st, target, table) ==
  [components |-> st.components,
   products |-> [i \in DOMAIN st.products |-> ReplayProduct(st.products[i], target[i], table)]]

\* the state the replay of the inputs of (comps, prods) under table ends in
Replay(comps, prods, table) ==
  ReplayProducts(
    ReplayComponents(ReplayResize(ReplayMount(table), Len(comps)), Len(comps),
                     ComponentInputs(comps), table),
    ProductInputs(prods), table)

\* the replay ends with the inputs of the current state
ReplayReachesInputs ==
  LET r == Replay(components, products, atomics)
  IN  /\ Len(products) = Len(components)
      /\ ComponentInputs(r.components) = ComponentInputs(components)
      /\ ProductInputs(r.products) = ProductInputs(products)

\* C11: two sequences of operations that end with the same inputs expose the
\* same molecular weights, gravimetric factors, raw quantities, totals and
\* normalized masses: whenever the replay of the current inputs ends with
\* these inputs, it ends with the stored molecular weights and gravimetric
\* factors of the current state, and so with the same derived values.
C11_InputsDetermineResults ==
  ReplayReachesInputs =>
    LET r == Replay(components, products, atomics)
    IN  /\ r.components = components
        /\ r.products = products
        /\ compResultsOf(r.components, precursorMolesMapOf(r.products)) = compResults
        /\ productResultsOf(r.products, r.components) = productResults

(***************************************************************************)
(* The parser on its own: one formula is entered into the first precursor  *)
(* of the mounted provider, before or after the table has loaded.  The     *)
(* formulas are built from element symbols, counts and groups.             *)
(***************************************************************************)
ParserSymbols == {<<"C", "a">>, <<"O">>, <<"H">>, <<"P">>}

\* the largest count written in a generated formula
MaxCount == 4

\* a count as it is written: nothing for 1, its digit otherwise
CountText(n) == IF n = 1 THEN <<>> ELSE <<DigitSeq[n + 1]>>

\* a n b m
Flat(a, n, b, m) == a \o CountText(n) \o b \o CountText(m)

\* a n ( b c m ) k
Grouped(a, n, b, c, m, k) ==
  a \o CountText(n) \o <<"(">> \o b \o c \o CountText(m) \o <<")">> \o CountText(k)

\* ( a ( b m ) j ) k
Nested(a, b, m, j, k) ==
  <<"(">> \o a \o <<"(">> \o b \o CountText(m) \o <<")">> \o CountText(j)
    \o <<")">> \o CountText(k)

\* a n ( b m, the group left open
Unclosed(a, n, b, m) == a \o CountText(n) \o <<"(">> \o b \o CountText(m)

\* a n ) k, the group never opened
Unopened(a, n, k) == a \o CountText(n) \o <<")">> \o CountText(k)

F_Ca3PO42 == <<"C", "a", "3", "(", "P", "O", "4", ")", "2">>
F_CaOH2   == <<"C", "a", "(", "O", "H", ")", "2">>

WellFormedInputs ==
  {Flat(a, n, b, m) : a \in ParserSymbols, b \in ParserSymbols,
                      n \in 1..MaxCount, m \in 1..MaxCount}
  \cup {Grouped(x[1], x[2], y[1], y[2], z[1], z[2]) :
          x \in ParserSymbols \X (1..MaxCount),
          y \in ParserSymbols \X ParserSymbols,
          z \in (1..MaxCount) \X (1..MaxCount)}
  \cup {Nested(x[1], x[2], y[1], y[2], y[3]) :
          x \in ParserSymbols \X ParserSymbols,
          y \in (1..MaxCount) \X (1..MaxCount) \X (1..MaxCount)}
  \cup {F_La2O3}

MalformedInputs ==
  {Unclosed(x[1], x[2], y[1], y[2]) :
     x \in ParserSymbols \X (1..MaxCount), y \in ParserSymbols \X (1..MaxCount)}
  \cup {Unopened(a, n, k) : a \in ParserSymbols, n \in 1..MaxCount, k \in 1..MaxCount}
  \cup {F_CaOH_open,
        <<"C", "a", "-", "2">>, <<"C", "a", "(", "O", "H", ")", "-", "2">>,
        <<"C", "a", "*", "O">>, <<"c", "a", "O">>, <<"2", "C", "a">>,
        <<"C", "a", "(", "2", "O", ")">>, <<")", "C", "a", "(">>}

ParserInputs == WellFormedInputs \cup MalformedInputs

\* handleComponentChange(0, "formula")(f) on the provider as mounted
PasteFormula(f) == edits = 0 /\ HandleComponentFormula(1, f)

ParseNext ==
  \/ LoadAtomics
  \/ \E f \in ParserInputs : PasteFormula(f)

ParseSpec == Init /\ [][ParseNext]_vars

(***************************************************************************)
(* The element counts of a formula read off its text, occurrence by        *)
(* occurrence: an occurrence of a symbol counts its own number times the   *)
(* trailing number of every group that encloses it.                        *)
(***************************************************************************)
\* the number of groups open after s[1..i]
RECURSIVE Depth(_, _)
Depth(s, i) ==
  IF i = 0 THEN 0
  ELSE Depth(s, i - 1) + (IF s[i] = "(" THEN 1 ELSE IF s[i] = ")" THEN -1 ELSE 0)

\* the integer written at s[j..], 1 when none is
IntAt(s, j) ==
  IF j <= Len(s) /\ IsDigit(s[j]) THEN DigitsValue(s, j, DigitsEnd(s, j)) ELSE 1

\* the ")" that closes the "(" at o
MatchClose(s, o) ==
  LET closes == {c \in (o + 1)..Len(s) : s[c] = ")" /\ Depth(s, c) = Depth(s, o) - 1}
  IN  CHOOSE c \in closes : \A e \in closes : c <= e

\* the "(" of the groups that enclose position i
Enclosing(s, i) == {o \in 1..(i - 1) : s[o] = "(" /\ MatchClose(s, o) > i}

RECURSIVE GroupFactor(_, _)
GroupFactor(s, opens) ==
  IF opens = {} THEN 1
  ELSE LET o == CHOOSE x \in opens : TRUE
       IN  IntAt(s, MatchClose(s, o) + 1) * GroupFactor(s, opens \ {o})

SymbolStarts(s) == {i \in DOMAIN s : IsUpper(s[i])}
SymbolAt(s, i) == SubSeq(s, i, LowerEnd(s, i + 1) - 1)

\* what the occurrence at i adds to the count of its symbol
OccurrenceCount(s, i) == IntAt(s, LowerEnd(s, i + 1)) * GroupFactor(s, Enclosing(s, i))

RECURSIVE SumOccurrences(_, _)
SumOccurrences(s, starts) ==
  IF starts = {} THEN 0
  ELSE LET i == CHOOSE x \in starts : TRUE
       IN  OccurrenceCount(s, i) + SumOccurrences(s, starts \ {i})

OccurrenceCounts(s) ==
  [sym \in {SymbolAt(s, i) : i \in SymbolStarts(s)} |->
     Num(SumOccurrences(s, {i \in SymbolStarts(s) : SymbolAt(s, i) = sym}))]

\* the ways a formula is malformed
UnmatchedClose(s) == \E i \in DOMAIN s : Depth(s, i) < 0
UnclosedOpen(s)   == Depth(s, Len(s)) > 0
NegativeLiteral(s) == \E i \in DOMAIN s : s[i] = "-"
UnrecognizedCharacter(s) ==
  \E i \in DOMAIN s :
    \/ ~(IsUpper(s[i]) \/ IsLower(s[i]) \/ IsDigit(s[i]) \/ s[i] \in {"(", ")", "."})
    \/ IsLower(s[i]) /\ (i = 1 \/ ~(IsUpper(s[i - 1]) \/ IsLower(s[i - 1])))
    \/ IsDigit(s[i]) /\ (i = 1 \/ s[i - 1] = "(")

Malformed(s) ==
  UnmatchedClose(s) \/ UnclosedOpen(s) \/ UnrecognizedCharacter(s) \/ NegativeLiteral(s)

\* the formula entered into the first precursor
EnteredFormula == components[1].formula

\* the entered formula has gone through the handler
Entered == edits = 1

\* C12: the parse of a well-formed formula multiplies every count inside a
\* group by the group's trailing number (1 when absent) and sums the counts
\* of a symbol over all its occurrences, inside or outside groups; so
\* Ca3(PO4)2 is {Ca:3, P:2, O:8}, Ca(OH)2 is {Ca:1, O:2, H:2} and La2O3 is
\* {La:2, O:3}.
C12_GroupsMultiplyAndSum ==
  LET s == EnteredFormula
      r == parse(s)
  IN  /\ ~Malformed(s) => r.ok /\ r.counts = OccurrenceCounts(s)
      /\ s = F_Ca3PO42 =>
           r.counts = (<<"C", "a">> :> Num(3)) @@ (<<"P">> :> Num(2)) @@ (<<"O">> :> Num(8))
      /\ s = F_CaOH2 =>
           r.counts = (<<"C", "a">> :> Num(1)) @@ (<<"O">> :> Num(2)) @@ (<<"H">> :> Num(2))
      /\ s = F_La2O3 =>
           r.counts = (<<"L", "a">> :> Num(2)) @@ (<<"O">> :> Num(3))

\* O3(OH4)2 has been entered: O occurs outside and inside the group
C12_Witness ==
  /\ Entered
  /\ EnteredFormula = <<"O", "3", "(", "O", "H", "4", ")", "2">>
  /\ parse(EnteredFormula).counts = (<<"O">> :> Num(5)) @@ (<<"H">> :> Num(8))
  /\ components[1].mw = Num(88)

\* C13: parsing a formula with an unmatched ")", an unclosed "(", an
\* unrecognized character or a negative numeric literal ends in the
\* ParseError value, whose element-count map is empty: no partial map comes
\* back to the caller.
C13_MalformedIsParseError ==
  Malformed(EnteredFormula) =>
    /\ parse(EnteredFormula) = ParseError
    /\ DOMAIN parse(EnteredFormula).counts = {}
    /\ molecularWeight(EnteredFormula, PeriodicTable) = Undefined

\* Ca(OH has been entered
C13_Witness ==
  /\ Entered
  /\ EnteredFormula = F_CaOH_open
  /\ UnclosedOpen(EnteredFormula)
  /\ ~parse(EnteredFormula).ok

\* C14: after mounting and after any sequence of setNumComponents calls and
\* edits, components.length = numComponents = numProducts = products.length.
C14_LengthsAgree ==
  /\ Len(components) = numComponents
  /\ numProducts = numComponents
  /\ Len(products) = numProducts

\* the lists have been emptied and grown again to two blank items
C14_Witness ==
  /\ edits = 2
  /\ numComponents = 2
  /\ Len(components) = 2
  /\ Len(products) = 2
  /\ components[1] = BlankComponent
  /\ products[2] = BlankProduct

\* C15: every product at an index i whose component i has a non-empty formula
\* has a precursorFormula that is the formula of some current component.
C15_PrecursorsResolve ==
  \A i \in DOMAIN products :
    (i \in DOMAIN components /\ components[i].formula # EmptyFormula) =>
      products[i].precursorFormula \in {components[j].formula : j \in DOMAIN components}

\* the third precursor was renamed: the first product, which named it, now
\* names the first precursor
C15_Witness ==
  /\ Len(components) = 3
  /\ components[3].formula = F_MinHash
  /\ products[3].precursorFormula = F_MinHash
  /\ products[1].precursorFormula = F_CaO
  /\ components[1].formula = F_CaO

\* C16: once the table is loaded, each product's stored gf is the gravimetric
\* factor of its current formula, precursorFormula, precursorMoles and
\* productMoles whenever both formulas are non-empty, and null when either
\* formula is empty.
C16_StoredGFIsCurrent ==
  Loaded =>
    \A i \in DOMAIN products :
      IF products[i].formula # EmptyFormula /\ products[i].precursorFormula # EmptyFormula
        THEN products[i].gf =
               calculateGF(products[i].precursorFormula, products[i].formula,
                           products[i].precursorMoles, products[i].productMoles, atomics)
        ELSE products[i].gf = Null

\* C17: whenever productTotalWeight > 0, productWeightPercents[i] is
\* desiredBatch * productResults[i].molQty / productTotalWeight for every
\* product i, and the product-view masses sum to desiredBatch.
C17_ProductViewNormalized ==
  LET presults == productResults
      ptotal   == productTotalWeight
      pweights == productWeightPercents
  IN  Gt(ptotal, Num(0)) =>
        /\ DOMAIN pweights = DOMAIN products
        /\ \A i \in DOMAIN products :
             pweights[i] = Div(Mul(desiredBatch, presults[i].molQty), ptotal)
        /\ SumSeq(pweights) = desiredBatch

(***************************************************************************)
(* The GF-adjusted precursor view                                          *)
(***************************************************************************)
\* products.some(p => p.formula && p.gf !== null && p.precursorFormula &&
\*                    components.some(c => c.formula === p.precursorFormula))
hasValidProductsWithGFOf(prods, comps) ==
  \E i \in DOMAIN prods :
    /\ prods[i].formula # EmptyFormula
    /\ prods[i].gf # Null
    /\ prods[i].precursorFormula # EmptyFormula
    /\ HasFormula(comps, prods[i].precursorFormula)

hasValidProductsWithGF == hasValidProductsWithGFOf(products, components)

\* precursorGfMap: precursorFormula -> {gf, productFormula, productMW}, a later
\* product replacing an earlier one with the same precursor
RECURSIVE precursorGfMapOf(_, _)
precursorGfMapOf(prods, comps) ==
  IF prods = <<>> THEN <<>>
  ELSE LET p    == prods[Len(prods)]
           rest == precursorGfMapOf(SubSeq(prods, 1, Len(prods) - 1), comps)
       IN  IF /\ p.precursorFormula # EmptyFormula
              /\ p.formula # EmptyFormula
              /\ p.gf # Null
              /\ HasFormula(comps, p.precursorFormula)
             THEN MapSet(rest, p.precursorFormula,
                         [gf |-> p.gf, productFormula |-> p.formula, productMW |-> p.mw])
             ELSE rest

precursorGfMap == precursorGfMapOf(products, components)

\* productInfo?.productMW and productInfo?.gf
InfoMW(gfMap, f) == IF MapHas(gfMap, f) THEN MapGet(gfMap, f).productMW ELSE Undefined
InfoGF(gfMap, f) == IF MapHas(gfMap, f) THEN MapGet(gfMap, f).gf ELSE Undefined

componentsWithGFOf(comps, gfMap) ==
  [i \in DOMAIN comps |->
     [precursor       |-> comps[i].formula,
      matrix          |-> comps[i].matrix,
      molecularWeight |-> Or(InfoMW(gfMap, comps[i].formula), comps[i].mw),
      gf              |-> Or(InfoGF(gfMap, comps[i].formula), Num(1))]]

componentsWithGF == componentsWithGFOf(components, precursorGfMap)

\* the products that supply a factor for the formula f
FactorProducts(f) ==
  {j \in DOMAIN products : /\ products[j].precursorFormula = f
                           /\ products[j].formula # EmptyFormula
                           /\ products[j].gf # Null}

\* C18: whenever the GF-adjusted view is computed, the factor of a component
\* is the gf of a product that names the component's formula as its precursor
\* and has a formula and a non-null gf (a gf of 0 included); a component with
\* no such product has the factor 1 and keeps its own mw.
C18_FactorIsProductGF ==
  hasValidProductsWithGF =>
    \A i \in DOMAIN components :
      IF FactorProducts(components[i].formula) # {}
        THEN \E j \in FactorProducts(components[i].formula) :
               componentsWithGF[i].gf = products[j].gf
        ELSE /\ componentsWithGF[i].gf = Num(1)
             /\ componentsWithGF[i].molecularWeight = components[i].mw

\* the same with a gf of 0 and a gf that is not a number left aside
C18_FactorOfTruthyGF ==
  hasValidProductsWithGF =>
    \A i \in DOMAIN components :
      IF FactorProducts(components[i].formula) # {}
        THEN \/ \E j \in FactorProducts(components[i].formula) :
                  componentsWithGF[i].gf = products[j].gf
             \/ \E j \in FactorProducts(components[i].formula) :
                  ~Truthy(products[j].gf) /\ componentsWithGF[i].gf = Num(1)
        ELSE /\ componentsWithGF[i].gf = Num(1)
             /\ componentsWithGF[i].molecularWeight = components[i].mw

\* the matrix value as the sum counts it: a value that is not a number is 0
CountedMatrix(c) == IF c.matrix.k = "fin" THEN c.matrix ELSE Num(0)

\* the sum of the counted matrix values, as a fraction n / d with d > 0
MatrixSum == SumSeq([i \in DOMAIN components |-> CountedMatrix(components[i])])

\* the sum is greater than 0 and more than 0.001 away from 100
SumOffTarget ==
  /\ MatrixSum.n > 0
  /\ 1000 * Abs(MatrixSum.n - 100 * MatrixSum.d) > MatrixSum.d

\* a step that changes the matrix value of a component that stays in the list
\* is the matrix edit of that component
MatrixOnlyEdited ==
  \A i \in DOMAIN components :
    (i \in DOMAIN components' /\ components'[i].matrix # components[i].matrix)
      => \E t \in MatrixTexts : HandleComponentMatrix(i, t)

\* C19: in every state the warning is the text "Matrix values do not sum to
\* 100%. Please adjust manually." exactly when the sum of the matrix values
\* (a value that is not a number counted as 0) is greater than 0 and differs
\* from 100 by more than 0.001, and is empty otherwise; and no step other
\* than the matrix edit of a component changes that component's matrix value.
C19_WarningRule ==
  /\ [](warning = IF SumOffTarget THEN WarningText ELSE "")
  /\ [][MatrixOnlyEdited]_vars

\* a matrix value that is not a number, beside values that sum to 70
C19_Witness ==
  /\ \E i \in DOMAIN components : components[i].matrix = NaN
  /\ MatrixSum = Num(70)
  /\ warning = WarningText

\* the fields of a product that a change of the number of components keeps
KeptFields(p) ==
  [formula |-> p.formula, mw |-> p.mw, gf |-> p.gf,
   precursorMoles |-> p.precursorMoles, productMoles |-> p.productMoles]

\* the lists after setNumComponents(n), against the lists before it
ResizeFrame(n) ==
  /\ Len(components') = n
  /\ Len(products') = n
  /\ \A i \in 1..n :
       /\ IF i <= Len(components)
            THEN components'[i] = components[i]
            ELSE components'[i] = BlankComponent
       /\ IF i <= Len(products)
            THEN KeptFields(products'[i]) = KeptFields(products[i])
            ELSE KeptFields(products'[i]) = KeptFields(BlankProduct)

\* C20: setNumComponents(n) leaves the first min(n, previous length)
\* components unchanged and appends only blank components when growing; it
\* keeps the formula, mw, gf and mole counts of the first min(n, previous
\* length) products and appends only blank products when growing.
C20_ResizeKeepsPrefix ==
  [][\A n \in 0..MaxComponents :
       (numComponents' = n /\ SetNumComponents(n)) => ResizeFrame(n)]_vars

\* the list cut to its first component and grown again by two blank ones
C20_Witness ==
  /\ edits = 2
  /\ numComponents = 3
  /\ components[1] = InitialComponents[1]
  /\ components[2] = BlankComponent
  /\ components[3] = BlankComponent
  /\ KeptFields(products[1]) = KeptFields(InitialProducts[1])
  /\ KeptFields(products[3]) = KeptFields(BlankProduct)

(***************************************************************************)
(* ElementAutoSuggest, the formula input of the first precursor card: its  *)
(* value is components[0].formula and its onChange is                      *)
(* handleComponentChange(0, "formula").                                    *)
(***************************************************************************)
\* a row of the table as the CSV loader builds it, with the element's name
ElementRow(sym, name, mass) ==
  [Symbol |-> sym, AtomicMass |-> Num(mass), Element |-> name]

\* rows of the periodic table in the order of the file, eleven of them with a
\* symbol that starts with C
ElementTable ==
  << ElementRow(<<"H">>, <<"H", "y", "d", "r", "o", "g", "e", "n">>, 1),
     ElementRow(<<"B">>, <<"B", "o", "r", "o", "n">>, 11),
     ElementRow(<<"C">>, <<"C", "a", "r", "b", "o", "n">>, 12),
     ElementRow(<<"O">>, <<"O", "x", "y", "g", "e", "n">>, 16),
     ElementRow(<<"S">>, <<"S", "u", "l", "f", "u", "r">>, 32),
     ElementRow(<<"C", "l">>, <<"C", "h", "l", "o", "r", "i", "n", "e">>, 35),
     ElementRow(<<"C", "a">>, <<"C", "a", "l", "c", "i", "u", "m">>, 40),
     ElementRow(<<"C", "r">>, <<"C", "h", "r", "o", "m", "i", "u", "m">>, 52),
     ElementRow(<<"C", "o">>, <<"C", "o", "b", "a", "l", "t">>, 59),
     ElementRow(<<"C", "u">>, <<"C", "o", "p", "p", "e", "r">>, 64),
     ElementRow(<<"A", "g">>, <<"S", "i", "l", "v", "e", "r">>, 108),
     ElementRow(<<"C", "d">>, <<"C", "a", "d", "m", "i", "u", "m">>, 112),
     ElementRow(<<"C", "s">>, <<"C", "e", "s", "i", "u", "m">>, 133),
     ElementRow(<<"L", "a">>, <<"L", "a", "n", "t", "h", "a", "n", "u", "m">>, 139),
     ElementRow(<<"C", "e">>, <<"C", "e", "r", "i", "u", "m">>, 140),
     ElementRow(<<"C", "m">>, <<"C", "u", "r", "i", "u", "m">>, 247),
     ElementRow(<<"C", "f">>,
                <<"C", "a", "l", "i", "f", "o", "r", "n", "i", "u", "m">>, 251) >>

\* String.prototype.trim, for the white space typed here
IsSpace(c) == c = " "

RECURSIVE TrimStart(_)
TrimStart(s) == IF s # <<>> /\ IsSpace(s[1]) THEN TrimStart(Tail(s)) ELSE s

RECURSIVE TrimEnd(_)
TrimEnd(s) ==
  IF s # <<>> /\ IsSpace(s[Len(s)]) THEN TrimEnd(SubSeq(s, 1, Len(s) - 1)) ELSE s

Trim(s) == TrimEnd(TrimStart(s))

\* the index of the last character of s[1..j] that is not a lower-case
\* letter, 0 when there is none
RECURSIVE LowerRunStart(_, _)
LowerRunStart(s, j) == IF j >= 1 /\ IsLower(s[j]) THEN LowerRunStart(s, j - 1) ELSE j

TokenIndexAt(s, j) == IF j >= 1 /\ IsUpper(s[j]) THEN j ELSE 0

\* the index at which /[A-Z][a-z]*$/ matches in s, 0 when it does not match
TokenIndex(s) == TokenIndexAt(s, LowerRunStart(s, Len(s)))

TokenFrom(s, p) == IF p = 0 THEN <<>> ELSE SubSeq(s, p, Len(s))

\* s.match(/[A-Z][a-z]*$/)?.[0] ?? ""
TokenOf(s) == TokenFrom(s, TokenIndex(s))

\* lastToken: the match in the trimmed value
lastTokenOf(v) == TokenOf(Trim(v))

ToLower(c) == IF IsUpper(c) THEN LowerSeq[IndexIn(UpperSeq, c)] ELSE c
toLowerCase(s) == [i \in DOMAIN s |-> ToLower(s[i])]
startsWith(s, prefix) ==
  Len(prefix) <= Len(s) /\ SubSeq(s, 1, Len(prefix)) = prefix

\* the filter of the table: the symbol or the name starts with the token,
\* case ignored; a row without a name is matched by its symbol only
MatchesToken(a, lowered) ==
  \/ startsWith(toLowerCase(a.Symbol), lowered)
  \/ "Element" \in DOMAIN a /\ startsWith(toLowerCase(a.Element), lowered)

\* .slice(0, 10)
FirstTen(s) == SubSeq(s, 1, IF Len(s) < 10 THEN Len(s) ELSE 10)

suggestionsOfToken(token, table) ==
  IF token # <<>> /\ IsUpper(token[1]) /\ Len(table) > 0
    THEN FirstTen(SelectSeq(table, LAMBDA a : MatchesToken(a, toLowerCase(token))))
    ELSE <<>>

suggestionsOf(v, table) == suggestionsOfToken(lastTokenOf(v), table)

\* the value shown in the input and the list under it
val == components[1].formula
suggestions == suggestionsOf(val, atomics)

\* val.replace(/[A-Z][a-z]*$/, symbol): the value itself when nothing matches
ReplaceFrom(v, p, symbol) == IF p = 0 THEN v ELSE SubSeq(v, 1, p - 1) \o symbol
ReplaceToken(v, symbol) == ReplaceFrom(v, TokenIndex(v), symbol)

\* newVal of pick
PickedValue(v, token, symbol) == IF token # <<>> THEN ReplaceToken(v, symbol) ELSE symbol

\* h + 1 with no upper limit
ArrowDownTo_Unclamped(h, length) == h + 1

\* Math.min(h + 1, suggestions.length - 1)
ArrowDownTo(h, length) == IF h + 1 < length - 1 THEN h + 1 ELSE length - 1

\* Math.max(h - 1, 0)
ArrowUpTo(h) == IF h - 1 > 0 THEN h - 1 ELSE 0

\* the frame of a step that only moves the highlight or the focus
ProviderUnchanged ==
  UNCHANGED <<atomics, components, numComponents, desiredBatch, products, numProducts,
              precursorFormula, precursorMoles, productFormula, productMoles, gf,
              warning, edits>>

\* onChange of the input: the text goes to the provider, the highlight is reset
TypeValue(text) ==
  /\ ComponentFormulaChange(1, text)
  /\ highlight' = -1
  /\ UNCHANGED focused

\* pick(idx), idx counted from 0, for an entry that is listed
Pick(idx, list) ==
  /\ idx + 1 \in DOMAIN list
  /\ ComponentFormulaChange(1, PickedValue(val, lastTokenOf(val), list[idx + 1].Symbol))
  /\ highlight' = -1
  /\ UNCHANGED focused

\* onKeyDown, which returns at once while nothing is suggested
KeyArrowDown ==
  /\ Len(suggestions) > 0
  /\ highlight' = ArrowDownTo(highlight, Len(suggestions))
  /\ UNCHANGED focused
  /\ ProviderUnchanged

KeyArrowUp ==
  /\ Len(suggestions) > 0
  /\ highlight' = ArrowUpTo(highlight)
  /\ UNCHANGED focused
  /\ ProviderUnchanged

KeyEnter ==
  /\ Len(suggestions) > 0
  /\ highlight >= 0
  /\ Pick(highlight, suggestions)

KeyEscape ==
  /\ Len(suggestions) > 0
  /\ focused' = FALSE
  /\ UNCHANGED highlight
  /\ ProviderUnchanged

\* the events of an item of the list, which is rendered while focused
MouseEnter(i) ==
  /\ focused
  /\ i + 1 \in DOMAIN suggestions
  /\ highlight' = i
  /\ UNCHANGED focused
  /\ ProviderUnchanged

MouseDown(i) == focused /\ Pick(i, suggestions)

OnFocus ==
  /\ focused' = TRUE
  /\ UNCHANGED highlight
  /\ ProviderUnchanged

\* the timer set by onBlur fires
BlurTimeout ==
  /\ focused' = FALSE
  /\ UNCHANGED highlight
  /\ ProviderUnchanged

\* the texts typed into the input
T_C      == <<"C">>
T_Co     == <<"C", "o">>
T_S      == <<"S">>
T_La2O   == <<"L", "a", "2", "O">>
T_SpaceC == <<" ", "C">>
T_CSpace == <<"C", " ">>
T_ca     == <<"c", "a">>
SuggestTexts == {EmptyFormula, T_C, T_Co, T_S, T_La2O, T_SpaceC, T_CSpace, T_ca}

SuggestNext ==
  \/ LoadTable(ElementTable)
  \/ \E text \in SuggestTexts : TypeValue(text)
  \/ KeyArrowDown
  \/ KeyArrowUp
  \/ KeyEnter
  \/ KeyEscape
  \/ \E i \in 0..9 : MouseEnter(i)
  \/ \E i \in 0..9 : MouseDown(i)
  \/ OnFocus
  \/ BlurTimeout

SuggestSpec == Init /\ [][SuggestNext]_vars

\* the Enter key, when it calls pick, is pressed with an entry highlighted
EnterPicksHighlighted == (KeyEnter /\ edits' # edits) => highlight >= 0

\* C21: in every state reached by typing, arrow, Enter and Escape keys, mouse
\* events on listed items and picks, -1 <= highlight <= suggestions.length - 1
\* for the suggestions of the current value; the list has at most 10
\* entries; and the Enter key picks an entry only when highlight >= 0.
C21_HighlightInRange ==
  /\ [](/\ -1 <= highlight
        /\ highlight <= Len(suggestions) - 1
        /\ Len(suggestions) <= 10)
  /\ [][EnterPicksHighlighted]_vars

\* the last of ten listed entries is highlighted while an eleventh row of the
\* table matches the token as well
C21_Witness ==
  /\ highlight = 9
  /\ Len(suggestions) = 10
  /\ Len(SelectSeq(atomics, LAMBDA a : MatchesToken(a, toLowerCase(lastTokenOf(val))))) = 11

\* the number of white space characters v starts with
LeadingSpaces(v) == Len(v) - Len(TrimStart(v))

\* where the last token of v starts and ends in v, the white space around
\* the value counted
TokenStartIn(v) == LeadingSpaces(v) + TokenIndex(Trim(v))
TokenEndIn(v)   == LeadingSpaces(v) + Len(Trim(v))

\* v with its last token replaced by symbol: every character before the
\* token kept, the white space after it kept or dropped
TokenReplaced(v, symbol) ==
  { SubSeq(v, 1, TokenStartIn(v) - 1) \o symbol \o SubSeq(v, TokenEndIn(v) + 1, Len(v)),
    SubSeq(v, 1, TokenStartIn(v) - 1) \o symbol }

\* a step in which listed entry i is picked, by the mouse or by Enter
PickStep(i) == edits' = edits + 1 /\ highlight' = -1 /\ Pick(i, suggestions)

\* C22: picking suggestion idx for a value that yields suggestions, white
\* space before or after it included, passes to onChange the value in which
\* only the last element token is replaced by the suggestion's Symbol, every
\* character before the token unchanged.
C22_PickReplacesToken ==
  [][\A i \in 0..9 :
       PickStep(i) => components'[1].formula \in TokenReplaced(val, suggestions[i + 1].Symbol)]_vars

\* the same for the values that do not end with white space
C22_PickWithoutTrailingSpace ==
  [][\A i \in 0..9 :
       (PickStep(i) /\ TrimEnd(val) = val)
         => components'[1].formula \in TokenReplaced(val, suggestions[i + 1].Symbol)]_vars

\* a symbol picked into a value that starts with white space
C22_LeadingSpaceKept ==
  /\ edits = 2
  /\ highlight = -1
  /\ val = <<" ", "C", "l">>
====
